---- MODULE Spec2Model ----
(***************************************************************************)
(* rsbf: a Brainfuck interpreter (src/source/vm.rs, src/source/main.rs).   *)
(* The pipeline is lexer -> parse -> run.  lexer and parse are pure        *)
(* functions and are operators here; run walks the instruction tree over   *)
(* a byte tape and is a state machine with one action per VMInstruction.   *)
(***************************************************************************)
EXTENDS Integers, Sequences, FiniteSets, TLC

VARIABLES
    pc,               \* position in main / run: "lexer", "parse", "run", "exec", "returned", "panicked"
    source_code,      \* main: the characters of the source file
    bf_instructions,  \* main: the lexer's output
    vm_instructions,  \* main: the parser's output, run's first argument
    memory,           \* run: the tape, kept as the map of its nonzero cells
    data_pointer,     \* run: the usize pointer, as 16-bit limbs, least significant first
    input,            \* history: the bytes the input source held when run was called
    reader,           \* the unread bytes of the input source
    writer,           \* the bytes the output sink has received
    stack,            \* the activations of exec_vm_instructions, outermost first
    fuel,             \* executor steps still allowed in this run of the model
    last,             \* history: what the last step did
    printed           \* history: the cell value at each executed Print, in order

vars == <<pc, source_code, bf_instructions, vm_instructions, memory, data_pointer,
          input, reader, writer, stack, fuel, last, printed>>

----------------------------------------------------------------------------
(* Bounds of the model *)

\* longest token sequence / source text drawn exhaustively
MaxTokens == 4
\* how far past the i8 range the long runs of one token go
MaxOver == 2
\* most instruction nodes in a VM program handed to run directly
MaxSize == 3
\* executor steps allowed per run
MaxSteps == 16

----------------------------------------------------------------------------
(* Machine integers *)

\* i8: VMInstruction::Increment's payload
I8_MIN == -128
I8_MAX == 127
\* u8: one tape cell
U8_MODULUS == 256
\* [u8; 30_000]
TAPE_LEN == 30000
\* usize / isize on the 64-bit targets: four 16-bit limbs
LIMB == 65536
USIZE_LIMBS == 4

\* `x as u8` for an i8 x: the two's complement bit pattern
i8_as_u8(x) == IF x < 0 THEN x + U8_MODULUS ELSE x

\* mutant: the sum clamped to the u8 range instead of wrapped
u8_saturating_add_signed(cell, amount) ==
    IF cell + amount < 0 THEN 0
    ELSE IF cell + amount >= U8_MODULUS THEN U8_MODULUS - 1
    ELSE cell + amount

\* u8::wrapping_add_signed(self, rhs: i8) = self.wrapping_add(rhs as u8)
u8_wrapping_add_signed(cell, amount) == (cell + i8_as_u8(amount)) % U8_MODULUS

\* i8 `+=`: the sum when it fits; otherwise a panic when the build checks
\* overflow (debug profile) and the two's complement wrap when it does not
\* (release profile).
i8_add(a, b, overflow_checks) ==
    LET sum == a + b IN
    IF sum >= I8_MIN /\ sum <= I8_MAX THEN [overflow |-> FALSE, value |-> sum]
    ELSE IF overflow_checks THEN [overflow |-> TRUE, value |-> 0]
    ELSE [overflow |-> FALSE, value |-> ((sum - I8_MIN) % U8_MODULUS) + I8_MIN]

\* isize `+=`: no run of the model comes near the isize range, the sum fits
isize_add(a, b) == a + b

\* `x as usize` for an isize x with |x| < 2^31: sign-extended limbs
isize_as_usize(x) ==
    [i \in 1..USIZE_LIMBS |->
        IF i = 1 THEN x % LIMB
        ELSE IF i = 2 THEN (x \div LIMB) % LIMB
        ELSE IF x < 0 THEN LIMB - 1 ELSE 0]

\* the carry into limb i of a + b
RECURSIVE usize_carry(_, _, _)
usize_carry(a, b, i) ==
    IF i = 1 THEN 0 ELSE (a[i - 1] + b[i - 1] + usize_carry(a, b, i - 1)) \div LIMB

\* usize::wrapping_add: limb-wise sum, the carry out of the top limb dropped
usize_wrapping_add(a, b) ==
    [i \in 1..USIZE_LIMBS |-> (a[i] + b[i] + usize_carry(a, b, i)) % LIMB]

\* mutant: the pointer kept on the tape, wrapped at the tape's length
usize_add_signed_on_tape(pointer, amount) ==
    [i \in 1..USIZE_LIMBS |-> IF i = 1 THEN (pointer[1] + amount) % TAPE_LEN ELSE 0]

\* usize::wrapping_add_signed(self, rhs: isize) = self.wrapping_add(rhs as usize)
usize_wrapping_add_signed(pointer, amount) ==
    usize_wrapping_add(pointer, isize_as_usize(amount))

usize_zero == [i \in 1..USIZE_LIMBS |-> 0]

\* mutant: an unchecked index
in_bounds_unchecked(pointer) == TRUE

\* mutant: a check that lets the index one past the last cell through
in_bounds_inclusive(pointer) ==
    /\ \A i \in 2..USIZE_LIMBS : pointer[i] = 0
    /\ pointer[1] <= TAPE_LEN

\* the bounds check of memory[*data_pointer]
in_bounds(pointer) ==
    /\ \A i \in 2..USIZE_LIMBS : pointer[i] = 0
    /\ pointer[1] < TAPE_LEN

----------------------------------------------------------------------------
(* Tokens and instructions *)

BFInstruction ==
    {"Increment", "Decrement", "MoveRight", "MoveLeft",
     "PutChar", "ReadChar", "JumpIfZero", "JumpIfNotZero"}

\* VMInstruction's five variants
VMIncrement(amount) == [op |-> "Increment", amount |-> amount]
VMMove(amount) == [op |-> "Move", amount |-> amount]
VMPrint == [op |-> "Print"]
VMRead == [op |-> "Read"]
VMLoop(body) == [op |-> "Loop", body |-> body]

----------------------------------------------------------------------------
(* lexer *)

\* mutant: the tokens of '.' and ',' taken for one another
lexer_match_swapped(character) ==
    CASE character = "+" -> <<"Increment">>
      [] character = "-" -> <<"Decrement">>
      [] character = ">" -> <<"MoveRight">>
      [] character = "<" -> <<"MoveLeft">>
      [] character = "." -> <<"ReadChar">>
      [] character = "," -> <<"PutChar">>
      [] character = "[" -> <<"JumpIfZero">>
      [] character = "]" -> <<"JumpIfNotZero">>
      [] OTHER -> << >>

\* the match of lexer: Some(token) as <<token>>, None as << >>
lexer_match(character) ==
    CASE character = "+" -> <<"Increment">>
      [] character = "-" -> <<"Decrement">>
      [] character = ">" -> <<"MoveRight">>
      [] character = "<" -> <<"MoveLeft">>
      [] character = "." -> <<"PutChar">>
      [] character = "," -> <<"ReadChar">>
      [] character = "[" -> <<"JumpIfZero">>
      [] character = "]" -> <<"JumpIfNotZero">>
      [] OTHER -> << >>

\* one turn of the `for` loop over the characters: st.next is the 1-based
\* position of the next character, st.out the vector so far
lexer_step(source, st) ==
    IF st.next > Len(source) THEN st
    ELSE [next |-> st.next + 1, out |-> st.out \o lexer_match(source[st.next])]

\* n turns of the `for` loop
RECURSIVE lexer_steps(_, _, _)
lexer_steps(source, st, n) ==
    IF n = 0 THEN st
    ELSE IF n = 1 THEN lexer_step(source, st)
    ELSE CHOOSE result \in
             {lexer_steps(source, half, n - (n \div 2)) :
                 half \in {lexer_steps(source, st, n \div 2)}} : TRUE

lexer(source) == lexer_steps(source, [next |-> 1, out |-> << >>], Len(source)).out

----------------------------------------------------------------------------
(* parse *)

infer_increment_direction(bf_instruction) ==
    CASE bf_instruction = "Increment" -> 1
      [] bf_instruction = "Decrement" -> -1
      [] OTHER -> 0

infer_move_direction(bf_instruction) ==
    CASE bf_instruction = "MoveRight" -> 1
      [] bf_instruction = "MoveLeft" -> -1
      [] OTHER -> 0

\* mutant: a trailing Increment or Move taken for the variant asked for
last_is_counter(vm, op) == vm # << >> /\ vm[Len(vm)].op \in {"Increment", "Move"}

\* vm_instructions.last_mut() is Some(VMInstruction::<op>(..))
last_is(vm, op) == vm # << >> /\ vm[Len(vm)].op = op

\* vm with the payload of its last instruction replaced
set_last_amount(vm, amount) ==
    [vm EXCEPT ![Len(vm)] = [op |-> vm[Len(vm)].op, amount |-> amount]]

\* the Increment | Decrement arm: fold into a trailing Increment, or push.
\* The result is the new vector, and whether the `+=` panicked.
parse_increment(bf_instruction, vm, overflow_checks) ==
    IF last_is(vm, "Increment")
    THEN LET sum == i8_add(vm[Len(vm)].amount,
                           infer_increment_direction(bf_instruction),
                           overflow_checks)
         IN  IF sum.overflow THEN [panicked |-> TRUE, vm |-> vm]
             ELSE [panicked |-> FALSE, vm |-> set_last_amount(vm, sum.value)]
    ELSE [panicked |-> FALSE,
          vm |-> Append(vm, VMIncrement(infer_increment_direction(bf_instruction)))]

\* the MoveRight | MoveLeft arm
parse_move(bf_instruction, vm) ==
    IF last_is(vm, "Move")
    THEN set_last_amount(vm, isize_add(vm[Len(vm)].amount,
                                       infer_move_direction(bf_instruction)))
    ELSE Append(vm, VMMove(infer_move_direction(bf_instruction)))

RECURSIVE parse_internal(_, _, _)

\* mutant: a stray end-loop skipped like a comment, the scan goes on
parse_jump_if_not_zero_skipped(bf, st, overflow_checks) ==
    [st EXCEPT !.index = st.index + 1]

\* the JumpIfNotZero arm: `return index + 1`
parse_jump_if_not_zero(bf, st, overflow_checks) ==
    [st EXCEPT !.index = st.index + 1, !.returned = TRUE]

\* mutant: a body that ran out of tokens before its end-loop is dropped
parse_jump_if_zero_closed_only(bf, st, overflow_checks) ==
    LET inner == parse_internal(SubSeq(bf, st.index + 2, Len(bf)), << >>,
                                overflow_checks)
    IN  IF inner.panicked THEN [st EXCEPT !.panicked = TRUE]
        ELSE IF ~inner.returned THEN [st EXCEPT !.index = st.index + inner.index + 1]
        ELSE [st EXCEPT !.vm = Append(st.vm, VMLoop(inner.vm)),
                        !.index = st.index + inner.index + 1]

\* the JumpIfZero arm: the body is parsed from the rest of the tokens into a
\* fresh vector, and the scan resumes after the tokens the body consumed
parse_jump_if_zero(bf, st, overflow_checks) ==
    LET inner == parse_internal(SubSeq(bf, st.index + 2, Len(bf)), << >>,
                                overflow_checks)
    IN  IF inner.panicked THEN [st EXCEPT !.panicked = TRUE]
        ELSE [st EXCEPT !.vm = Append(st.vm, VMLoop(inner.vm)),
                        !.index = st.index + inner.index + 1]

\* one turn of the `while index < bf_instructions.len()` loop.  st.index is
\* the 0-based index of the source, st.vm the vector so far, st.returned is
\* set by the `return` of the JumpIfNotZero arm and st.panicked by a panic.
parse_step(bf, st, overflow_checks) ==
    IF st.panicked \/ st.returned \/ ~(st.index < Len(bf)) THEN st
    ELSE
    LET bf_instruction == bf[st.index + 1] IN
    CASE bf_instruction \in {"Increment", "Decrement"} ->
            LET next == parse_increment(bf_instruction, st.vm, overflow_checks) IN
            IF next.panicked THEN [st EXCEPT !.panicked = TRUE]
            ELSE [st EXCEPT !.vm = next.vm, !.index = st.index + 1]
      [] bf_instruction \in {"MoveRight", "MoveLeft"} ->
            [st EXCEPT !.vm = parse_move(bf_instruction, st.vm),
                       !.index = st.index + 1]
      [] bf_instruction = "PutChar" ->
            [st EXCEPT !.vm = Append(st.vm, VMPrint), !.index = st.index + 1]
      [] bf_instruction = "ReadChar" ->
            [st EXCEPT !.vm = Append(st.vm, VMRead), !.index = st.index + 1]
      [] bf_instruction = "JumpIfZero" ->
            parse_jump_if_zero(bf, st, overflow_checks)
      [] bf_instruction = "JumpIfNotZero" ->
            parse_jump_if_not_zero(bf, st, overflow_checks)

\* n turns of the `while` loop, the first half before the second (the
\* one-element sets make TLC compute the first half before it goes on)
RECURSIVE parse_steps(_, _, _, _)
parse_steps(bf, st, n, overflow_checks) ==
    IF n = 0 THEN st
    ELSE IF n = 1 THEN parse_step(bf, st, overflow_checks)
    ELSE CHOOSE result \in
             {parse_steps(bf, half, n - (n \div 2), overflow_checks) :
                 half \in {parse_steps(bf, st, n \div 2, overflow_checks)}} : TRUE

\* parse_internal: every turn consumes at least one token, so Len(bf) turns
\* run the `while` loop to its end.  Returns the tokens consumed (the
\* function's result), the vector, and whether the scan panicked.
parse_internal(bf, vm, overflow_checks) ==
    parse_steps(bf, [index |-> 0, vm |-> vm, panicked |-> FALSE, returned |-> FALSE],
                Len(bf), overflow_checks)

\* parse: the vector parse_internal filled; nothing is returned from a panic
parse(bf, overflow_checks) ==
    LET r == parse_internal(bf, << >>, overflow_checks) IN
    IF r.panicked THEN [panicked |-> TRUE, vm |-> << >>]
    ELSE [panicked |-> FALSE, vm |-> r.vm]

----------------------------------------------------------------------------
(* The tape *)

\* [0; 30_000]: no cell is nonzero
memory_zero == [i \in {} |-> 0]

\* memory[i], for i within the tape
memory_get(mem, i) == IF i \in DOMAIN mem THEN mem[i] ELSE 0

\* memory[i] = value, for i within the tape
memory_set(mem, i, value) ==
    IF value = 0 THEN [j \in DOMAIN mem \ {i} |-> mem[j]]
    ELSE [j \in DOMAIN mem \cup {i} |-> IF j = i THEN value ELSE mem[j]]

\* `cell as char` formatted with "{}": the UTF-8 encoding of U+0000..U+00FF
char_utf8(cell) ==
    IF cell < 128 THEN <<cell>>
    ELSE <<192 + (cell \div 64), 128 + (cell % 64)>>

----------------------------------------------------------------------------
(* exec_vm_instructions, one activation per stack frame *)

\* index counts the instructions of the `for` loop already done; passes is
\* history: the passes made so far of the Loop the activation stands at
Frame(instructions) == [vm_instructions |-> instructions, index |-> 0, passes |-> 0]

Top == stack[Len(stack)]

\* the `for` loop of the innermost activation has an instruction left
AtInstruction ==
    /\ pc = "exec"
    /\ fuel > 0
    /\ Top.index < Len(Top.vm_instructions)

Current == Top.vm_instructions[Top.index + 1]

\* the `for` loop moves to the next instruction
Advance == [stack EXCEPT ![Len(stack)].index = @ + 1, ![Len(stack)].passes = 0]

\* the current cell, when the pointer is within the tape
Cell == memory_get(memory, data_pointer[1])

\* mutant: the failure is passed over and the run goes on with the next
\* instruction, the cell as it was
Panic_ignored(why) ==
    /\ stack' = Advance
    /\ last' = [op |-> "ignored", why |-> why]
    /\ UNCHANGED <<pc, memory, data_pointer, writer, printed>>

\* an `expect` or an index out of bounds: the run is over
Panic(why) ==
    /\ pc' = "panicked"
    /\ last' = [op |-> "panic", why |-> why]
    /\ UNCHANGED <<memory, data_pointer, writer, stack, printed>>

\* mutant: a test that passes on a zero cell too
loop_test_any(cell) == cell >= 0

\* mutant: a test that fails on a cell holding 1 too
loop_test_above_one(cell) == cell > 1

\* the while test of the Loop arm, on the current cell
loop_test(cell) == cell # 0

\* mutant: an `if` in place of the `while`, the caller goes on after one pass
return_past_loop(frames) ==
    [SubSeq(frames, 1, Len(frames) - 1) EXCEPT ![Len(frames) - 1].index = @ + 1]

\* the frames after the innermost activation returns: its caller is back at
\* the while test of its Loop
return_to(frames) == SubSeq(frames, 1, Len(frames) - 1)

\* the frames when the while test passes: the caller calls
\* exec_vm_instructions on the body
call_body(frames, body) ==
    Append([frames EXCEPT ![Len(frames)].passes = @ + 1], Frame(body))

\* mutant: the byte is looked at and left in the input
read_peek(source) ==
    IF source = << >> THEN [ok |-> FALSE, byte |-> 0, rest |-> source]
    ELSE [ok |-> TRUE, byte |-> Head(source), rest |-> source]

\* read_exact into a one-byte buffer: fails at the end of the input
read_exact(source) ==
    IF source = << >> THEN [ok |-> FALSE, byte |-> 0, rest |-> source]
    ELSE [ok |-> TRUE, byte |-> Head(source), rest |-> Tail(source)]

\* write!(writer, "{}", cell as char)
write_char(sink, cell) == sink \o char_utf8(cell)

\* VMInstruction::Increment(amount)
ExecIncrement ==
    /\ AtInstruction
    /\ Current.op = "Increment"
    /\ fuel' = fuel - 1
    /\ IF in_bounds(data_pointer)
       THEN /\ memory' = memory_set(memory, data_pointer[1],
                                    u8_wrapping_add_signed(Cell, Current.amount))
            /\ stack' = Advance
            /\ last' = [op |-> "Increment", amount |-> Current.amount, cell |-> Cell]
            /\ UNCHANGED <<pc, data_pointer, writer, printed>>
       ELSE Panic("index out of bounds")
    /\ UNCHANGED <<source_code, bf_instructions, vm_instructions, input, reader>>

\* VMInstruction::Move(amount)
ExecMove ==
    /\ AtInstruction
    /\ Current.op = "Move"
    /\ fuel' = fuel - 1
    /\ data_pointer' = usize_wrapping_add_signed(data_pointer, Current.amount)
    /\ stack' = Advance
    /\ last' = [op |-> "Move", amount |-> Current.amount, from |-> data_pointer]
    /\ UNCHANGED <<pc, source_code, bf_instructions, vm_instructions, memory,
                   input, reader, writer, printed>>

\* VMInstruction::Print: the cell is read first, then written to the sink,
\* which accepts it or fails
ExecPrint ==
    /\ AtInstruction
    /\ Current.op = "Print"
    /\ fuel' = fuel - 1
    /\ IF in_bounds(data_pointer)
       THEN \E write_ok \in BOOLEAN :
              IF write_ok
              THEN /\ writer' = write_char(writer, Cell)
                   /\ printed' = Append(printed, Cell)
                   /\ stack' = Advance
                   /\ last' = [op |-> "Print", cell |-> Cell]
                   /\ UNCHANGED <<pc, memory, data_pointer>>
              ELSE Panic("cannot write")
       ELSE Panic("index out of bounds")
    /\ UNCHANGED <<source_code, bf_instructions, vm_instructions, input, reader>>

\* VMInstruction::Read: read_exact of one byte, which fails at the end of the
\* input or on a device error; then the store into the cell
ExecRead ==
    /\ AtInstruction
    /\ Current.op = "Read"
    /\ fuel' = fuel - 1
    /\ \E device_ok \in BOOLEAN :
         LET got == read_exact(reader) IN
         IF device_ok /\ got.ok
         THEN /\ reader' = got.rest
              /\ IF in_bounds(data_pointer)
                 THEN /\ memory' = memory_set(memory, data_pointer[1], got.byte)
                      /\ stack' = Advance
                      /\ last' = [op |-> "Read", byte |-> got.byte, cell |-> Cell]
                      /\ UNCHANGED <<pc, data_pointer, writer, printed>>
                 ELSE Panic("index out of bounds")
         ELSE /\ UNCHANGED reader
              /\ Panic("cannot read")
    /\ UNCHANGED <<source_code, bf_instructions, vm_instructions, input>>

\* VMInstruction::Loop(body): one evaluation of the while test, which either
\* calls exec_vm_instructions on the body or leaves the loop
ExecLoop ==
    /\ AtInstruction
    /\ Current.op = "Loop"
    /\ fuel' = fuel - 1
    /\ IF in_bounds(data_pointer)
       THEN /\ IF loop_test(Cell)
               THEN /\ stack' = call_body(stack, Current.body)
                    /\ last' = [op |-> "LoopEnter", cell |-> Cell,
                                passes |-> Top.passes, body |-> Current.body]
               ELSE /\ stack' = Advance
                    /\ last' = [op |-> "LoopExit", cell |-> Cell,
                                passes |-> Top.passes, body |-> Current.body]
            /\ UNCHANGED <<pc, memory, data_pointer, writer, printed>>
       ELSE Panic("index out of bounds")
    /\ UNCHANGED <<source_code, bf_instructions, vm_instructions, input, reader>>

\* the `for` loop of a loop body's activation is over: return to the caller
ExecReturn ==
    /\ pc = "exec"
    /\ fuel > 0
    /\ Len(stack) > 1
    /\ Top.index = Len(Top.vm_instructions)
    /\ fuel' = fuel - 1
    /\ stack' = return_to(stack)
    /\ last' = [op |-> "Return"]
    /\ UNCHANGED <<pc, source_code, bf_instructions, vm_instructions, memory,
                   data_pointer, input, reader, writer, printed>>

\* run: a fresh tape and pointer, then the outermost exec_vm_instructions
Run ==
    /\ pc = "run"
    /\ memory' = memory_zero
    /\ data_pointer' = usize_zero
    /\ stack' = <<Frame(vm_instructions)>>
    /\ pc' = "exec"
    /\ last' = [op |-> "run"]
    /\ UNCHANGED <<source_code, bf_instructions, vm_instructions, input, reader,
                   writer, fuel, printed>>

\* the outermost activation is over: run returns the tape
RunReturn ==
    /\ pc = "exec"
    /\ Len(stack) = 1
    /\ Top.index = Len(Top.vm_instructions)
    /\ pc' = "returned"
    /\ stack' = << >>
    /\ last' = [op |-> "return"]
    /\ UNCHANGED <<source_code, bf_instructions, vm_instructions, memory,
                   data_pointer, input, reader, writer, fuel, printed>>

----------------------------------------------------------------------------
(* main: lexer, then parse, then run *)

Lexer ==
    /\ pc = "lexer"
    /\ bf_instructions' = lexer(source_code)
    /\ pc' = "parse"
    /\ last' = [op |-> "lexer"]
    /\ UNCHANGED <<source_code, vm_instructions, memory, data_pointer, input,
                   reader, writer, stack, fuel, printed>>

\* parse under either build profile
Parse ==
    /\ pc = "parse"
    /\ \E overflow_checks \in BOOLEAN :
         LET parsed == parse(bf_instructions, overflow_checks) IN
         /\ vm_instructions' = parsed.vm
         /\ pc' = IF parsed.panicked THEN "panicked" ELSE "run"
         /\ last' = [op |-> "parse", overflow_checks |-> overflow_checks]
    /\ UNCHANGED <<source_code, bf_instructions, memory, data_pointer, input,
                   reader, writer, stack, fuel, printed>>

----------------------------------------------------------------------------
(* Inputs *)

RECURSIVE SeqUpTo(_, _)
SeqUpTo(S, n) ==
    IF n = 0 THEN {<< >>}
    ELSE LET shorter == SeqUpTo(S, n - 1) IN
         shorter \cup {Append(s, x) : s \in {t \in shorter : Len(t) = n - 1}, x \in S}

Repeat(x, n) == [i \in 1..n |-> x]

\* runs of one cell token whose net effect reaches and passes the i8 range
LongRuns ==
    {Repeat(t, n) : t \in {"Increment", "Decrement"},
                    n \in (I8_MAX - 1)..(I8_MAX + MaxOver)}

\* longer token sequences: like tokens on both sides of a loop and inside
\* it, runs of both classes around I/O tokens inside a loop, the echo loop
\* and the move loop
TokenSamples ==
    {<<"ReadChar", "JumpIfZero", "PutChar", "ReadChar", "JumpIfNotZero">>,
     <<"Increment", "Increment", "JumpIfZero", "MoveRight", "Increment", "MoveLeft",
       "Decrement", "JumpIfNotZero">>,
     <<"Increment", "JumpIfZero", "Increment", "JumpIfNotZero", "Increment">>,
     <<"MoveRight", "JumpIfZero", "MoveRight", "MoveRight", "JumpIfNotZero", "MoveRight">>,
     <<"JumpIfZero", "Decrement", "PutChar", "PutChar", "Decrement", "ReadChar",
       "ReadChar", "MoveLeft", "JumpIfNotZero">>}

\* the token sequences handed to parse
TokenSeqs ==
    SeqUpTo(BFInstruction, MaxTokens)
      \cup TokenSamples
      \cup {a \o r \o b : a \in SeqUpTo(BFInstruction, 1), r \in LongRuns,
                          b \in SeqUpTo(BFInstruction, 1)}

\* the input sources handed to run: at its end, one byte, and two bytes, one
\* above 127 and one zero
Inputs == {<< >>, <<65>>, <<200, 0>>}

\* the characters of a source: the eight symbols and two comment characters
Characters == {"+", "-", ">", "<", ".", ",", "[", "]", "x", " "}

\* the source texts handed to lexer, the empty one among them
LexSources == SeqUpTo(Characters, MaxTokens)

\* sources without I/O and loop symbols: short ones, and long runs of one
\* cell symbol between at most one character on either side
ArithCharacters == {"+", "-", ">", "<", "x"}
ArithSources ==
    SeqUpTo(ArithCharacters, MaxTokens)
      \cup {a \o Repeat(c, n) \o b :
                a \in SeqUpTo(ArithCharacters, 1), c \in {"+", "-"},
                n \in (I8_MAX - 1)..(I8_MAX + MaxOver),
                b \in SeqUpTo(ArithCharacters, 1)}

\* the instructions without a body
Atoms ==
    {VMIncrement(1), VMIncrement(-1), VMMove(1), VMMove(-1), VMMove(TAPE_LEN - 1),
     VMPrint, VMRead}

\* the instruction sequences of exactly n instructions, nested ones counted
RECURSIVE Programs(_)
Programs(n) ==
    IF n = 0 THEN {<< >>}
    ELSE UNION {
           {<<first>> \o rest :
               first \in (IF k = 1 THEN Atoms ELSE {})
                         \cup {VMLoop(body) : body \in Programs(k - 1)},
               rest \in Programs(n - k)} : k \in 1..n}

\* longer programs: a pass whose cell is zero midway, the copy loop, an echo
\* loop, nested loops, and a loop whose body does everything
Samples ==
    {<<VMIncrement(1), VMLoop(<<VMIncrement(-1), VMIncrement(1)>>)>>,
     <<VMIncrement(2), VMLoop(<<VMIncrement(-1), VMPrint>>), VMPrint>>,
     <<VMIncrement(2),
       VMLoop(<<VMMove(1), VMIncrement(1), VMMove(-1), VMIncrement(-1)>>)>>,
     <<VMRead, VMLoop(<<VMPrint, VMRead>>)>>,
     <<VMIncrement(1), VMLoop(<<VMLoop(<<VMIncrement(-1)>>), VMLoop(<<VMPrint>>)>>)>>,
     <<VMLoop(<<VMRead, VMPrint, VMMove(1), VMLoop(<<VMIncrement(1)>>)>>), VMPrint>>,
     <<VMIncrement(-1), VMLoop(<<VMMove(-1), VMLoop(<<VMRead>>), VMMove(1)>>)>>}

\* the instruction sequences handed to run directly
VMPrograms == UNION {Programs(n) : n \in 0..MaxSize} \cup Samples

\* every cell value met by every i8 amount: two Increments from a zero cell
AddPrograms ==
    {<<VMIncrement(a), VMIncrement(b)>> : a, b \in I8_MIN..I8_MAX}

\* the bracket-balanced token sequences among those handed to parse
BalancedSeqs ==
    {t \in TokenSeqs :
        /\ \A i \in 1..Len(t) :
              Cardinality({k \in 1..i : t[k] = "JumpIfZero"})
                >= Cardinality({k \in 1..i : t[k] = "JumpIfNotZero"})
        /\ Cardinality({k \in 1..Len(t) : t[k] = "JumpIfZero"})
              = Cardinality({k \in 1..Len(t) : t[k] = "JumpIfNotZero"})}

\* the counting programs: k increments, then the clear loop or the move loop
CountSources ==
    {Repeat("+", k) \o <<"[", "-", "]">> : k \in 1..(U8_MODULUS - 1)}
      \cup {Repeat("+", n) \o <<"[", ">", "+", "<", "-", "]">> :
               n \in 0..(U8_MODULUS - 1)}

\* more instructions than the longest of them executes: 255 passes of a body
\* of four, each with its test and its return
CountSteps == 6 * U8_MODULUS + MaxSteps

----------------------------------------------------------------------------
(* Specifications *)

InitCommon ==
    /\ memory = memory_zero
    /\ data_pointer = usize_zero
    /\ writer = << >>
    /\ stack = << >>
    /\ fuel = MaxSteps
    /\ last = [op |-> "init"]
    /\ printed = << >>

\* parse called on a token sequence
InitParse ==
    /\ pc = "parse"
    /\ source_code = << >>
    /\ bf_instructions \in TokenSeqs
    /\ vm_instructions = << >>
    /\ input = << >>
    /\ reader = input
    /\ InitCommon

NextParse == Parse

SpecParse == InitParse /\ [][NextParse]_vars

\* run called on an instruction sequence, a reader and a writer
InitRun ==
    /\ pc = "run"
    /\ source_code = << >>
    /\ bf_instructions = << >>
    /\ vm_instructions \in VMPrograms
    /\ input \in Inputs
    /\ reader = input
    /\ InitCommon

NextRun ==
    \/ Run
    \/ ExecIncrement
    \/ ExecMove
    \/ ExecPrint
    \/ ExecRead
    \/ ExecLoop
    \/ ExecReturn
    \/ RunReturn

SpecRun == InitRun /\ [][NextRun]_vars

\* run called on two Increments
InitAdd ==
    /\ pc = "run"
    /\ source_code = << >>
    /\ bf_instructions = << >>
    /\ vm_instructions \in AddPrograms
    /\ input = << >>
    /\ reader = input
    /\ InitCommon

NextAdd ==
    \/ Run
    \/ ExecIncrement
    \/ RunReturn

SpecAdd == InitAdd /\ [][NextAdd]_vars

\* lexer called on a source text
InitLex ==
    /\ pc = "lexer"
    /\ source_code \in LexSources
    /\ bf_instructions = << >>
    /\ vm_instructions = << >>
    /\ input = << >>
    /\ reader = input
    /\ InitCommon

NextLex == Lexer

SpecLex == InitLex /\ [][NextLex]_vars

\* parse and then run, on a bracket-balanced token sequence and an input
InitFold ==
    /\ pc = "parse"
    /\ source_code = << >>
    /\ bf_instructions \in BalancedSeqs
    /\ vm_instructions = << >>
    /\ input \in Inputs
    /\ reader = input
    /\ InitCommon

NextFold ==
    \/ Parse
    \/ Run
    \/ ExecIncrement
    \/ ExecMove
    \/ ExecPrint
    \/ ExecRead
    \/ ExecLoop
    \/ ExecReturn
    \/ RunReturn

SpecFold == InitFold /\ [][NextFold]_vars

\* main on a counting program
InitCount ==
    /\ pc = "lexer"
    /\ source_code \in CountSources
    /\ bf_instructions = << >>
    /\ vm_instructions = << >>
    /\ input = << >>
    /\ reader = input
    /\ memory = memory_zero
    /\ data_pointer = usize_zero
    /\ writer = << >>
    /\ stack = << >>
    /\ fuel = CountSteps
    /\ last = [op |-> "init"]
    /\ printed = << >>

NextCount ==
    \/ Lexer
    \/ Parse
    \/ Run
    \/ ExecIncrement
    \/ ExecMove
    \/ ExecLoop
    \/ ExecReturn
    \/ RunReturn

SpecCount == InitCount /\ [][NextCount]_vars

\* main on a source without I/O and loop symbols
InitArith ==
    /\ pc = "lexer"
    /\ source_code \in ArithSources
    /\ bf_instructions = << >>
    /\ vm_instructions = << >>
    /\ input = << >>
    /\ reader = input
    /\ InitCommon

NextArith ==
    \/ Lexer
    \/ Parse
    \/ Run
    \/ ExecIncrement
    \/ ExecMove
    \/ RunReturn

SpecArith == InitArith /\ [][NextArith]_vars

----------------------------------------------------------------------------
(* Properties of run *)

\* cell i of the tape, for every i the two tapes can differ at
SameTapeExcept(mem1, mem2, at, value) ==
    \A i \in DOMAIN mem1 \cup DOMAIN mem2 \cup {at} :
        memory_get(mem2, i) = IF i = at THEN value ELSE memory_get(mem1, i)

\* C1: the bytes the sink has received are exactly the values the current
\* cell had at each executed Print, one byte per Print, in order.
C1_OutputIsCellValues == writer = printed

\* C2: an Increment(d) executed on a cell holding v leaves (v + d) mod 256 in
\* that cell, and changes neither another cell nor the pointer.
C2_AddWraps ==
    [][(AtInstruction /\ Current.op = "Increment" /\ in_bounds(data_pointer))
        => /\ SameTapeExcept(memory, memory', data_pointer[1],
                             (Cell + Current.amount) % 256)
           /\ data_pointer' = data_pointer]_vars

\* C2 witness: an Increment(-1) has taken a cell from 0 to 255
C2_Witness ==
    /\ last.op = "Increment"
    /\ last.cell = 0
    /\ last.amount = -1
    /\ Cell = 255

\* C4 as stated: every cell holds a value in 0..255, the tape has 30,000
\* cells, and the pointer lies in [0, 30000), in every reachable state.
C4_PointerWithinTape ==
    /\ \A i \in DOMAIN memory : i \in 0..(TAPE_LEN - 1) /\ memory[i] \in 0..255
    /\ data_pointer[1] < TAPE_LEN
    /\ \A k \in 2..USIZE_LIMBS : data_pointer[k] = 0

\* C4 amended: every cell holds a value in 0..255, the tape has 30,000
\* cells, the pointer is a usize, and it lies in [0, 30000) right after every
\* instruction that read or wrote a cell; a Move can take it out of that range.
C4_TapeInvariant ==
    /\ \A i \in DOMAIN memory : i \in 0..(TAPE_LEN - 1) /\ memory[i] \in 0..255
    /\ DOMAIN data_pointer = 1..USIZE_LIMBS
    /\ \A k \in 1..USIZE_LIMBS : data_pointer[k] \in 0..(LIMB - 1)
    /\ last.op \in {"Increment", "Print", "Read", "LoopEnter", "LoopExit"}
         => /\ data_pointer[1] < TAPE_LEN
            /\ \A k \in 2..USIZE_LIMBS : data_pointer[k] = 0

\* C4 witness: a Move has taken the pointer past the last cell of the tape,
\* after the last cell was written
C4_Witness ==
    /\ last.op = "Move"
    /\ data_pointer = <<TAPE_LEN, 0, 0, 0>>
    /\ (TAPE_LEN - 1) \in DOMAIN memory

\* the innermost activation runs a loop body
InBody == pc = "exec" /\ Len(stack) > 1

\* C5: the test is made only before a pass.  A body's activation ends only
\* at the end of the body, whatever the cell holds meanwhile; when it ends
\* its caller stands at the same Loop again, to repeat the test; a test on a
\* nonzero cell starts a pass at the body's first instruction, and the loop
\* is left only by a test that finds the current cell 0.
C5_LoopTestsBeforeEachPass ==
    [][/\ (InBody /\ pc' = "exec" /\ Len(stack') < Len(stack))
          => /\ Top.index = Len(Top.vm_instructions)
             /\ Len(stack') = Len(stack) - 1
             /\ stack'[Len(stack')] = stack[Len(stack) - 1]
             /\ Current'.op = "Loop"
             /\ Current'.body = Top.vm_instructions
             /\ UNCHANGED <<memory, data_pointer, reader, writer>>
       /\ (AtInstruction /\ Current.op = "Loop" /\ pc' = "exec")
          => /\ in_bounds(data_pointer)
             /\ IF Cell # 0
                THEN /\ Len(stack') = Len(stack) + 1
                     /\ Top' = [vm_instructions |-> Current.body, index |-> 0,
                                passes |-> 0]
                     /\ stack'[Len(stack)].index = Top.index
                ELSE /\ Len(stack') = Len(stack)
                     /\ Top'.index = Top.index + 1]_vars

\* C5 witness: inside a pass, after an Increment took the current cell to 0,
\* with more of the body still to run
C5_Witness ==
    /\ InBody
    /\ Top.index \in 1..(Len(Top.vm_instructions) - 1)
    /\ last.op = "Increment"
    /\ in_bounds(data_pointer)
    /\ Cell = 0

\* C6: a Loop met with the current cell 0 runs its body zero times: the next
\* instruction of the same activation is the one after the Loop, and the
\* tape, the pointer, the output and the unread input are as before.
C6_LoopSkippedOnZero ==
    [][(AtInstruction /\ Current.op = "Loop" /\ Top.passes = 0
          /\ in_bounds(data_pointer) /\ Cell = 0)
        => /\ pc' = "exec"
           /\ Len(stack') = Len(stack)
           /\ Top'.vm_instructions = Top.vm_instructions
           /\ Top'.index = Top.index + 1
           /\ UNCHANGED <<memory, data_pointer, reader, writer, printed>>]_vars

\* C6 witness: a Loop whose body reads, prints, moves and loops was skipped
\* on entry, with input still unread
C6_Witness ==
    /\ last.op = "LoopExit"
    /\ last.passes = 0
    /\ reader # << >>
    /\ \A op \in {"Read", "Print", "Move", "Loop"} :
          \E k \in 1..Len(last.body) : last.body[k].op = op

\* C8: an Input that completes takes the first unread byte off the input,
\* stores it in the current cell and changes nothing else; and source ",."
\* run to its end on input 0x41 has written the byte 0x41 and left 65 in the
\* current cell.
C8_InputStoresNextByte ==
    /\ [][(AtInstruction /\ Current.op = "Read" /\ pc' = "exec")
           => /\ reader # << >>
              /\ reader' = Tail(reader)
              /\ in_bounds(data_pointer)
              /\ SameTapeExcept(memory, memory', data_pointer[1], Head(reader))
              /\ UNCHANGED <<data_pointer, writer>>]_vars
    /\ [](\A overflow_checks \in BOOLEAN :
            (/\ vm_instructions = parse(lexer(<<",", ".">>), overflow_checks).vm
             /\ input = <<65>>
             /\ pc = "returned")
            => /\ writer = <<65>>
               /\ reader = << >>
               /\ in_bounds(data_pointer)
               /\ Cell = 65)

\* C8 witness: ",." has run to its end on input 0x41, and the Input had a
\* cell to overwrite
C8_Witness ==
    /\ pc = "returned"
    /\ vm_instructions = <<VMRead, VMPrint>>
    /\ input = <<65>>
    /\ writer = <<65>>

\* C12: an Input executed when the input is exhausted aborts the run at that
\* instruction, with tape, pointer and output as they were; an Input or
\* Output after which the run goes on has read its byte or written its
\* output (there is no fallback that leaves the cell unchanged); and once
\* aborted, the run executes nothing more and returns no tape.
C12_InputAtEndIsFatal ==
    /\ [][(AtInstruction /\ Current.op = "Read" /\ reader = << >>)
           => /\ pc' = "panicked"
              /\ UNCHANGED <<memory, data_pointer, reader, writer, stack>>]_vars
    /\ [][(AtInstruction /\ Current.op = "Read" /\ pc' = "exec")
           => (reader # << >> /\ reader' = Tail(reader))]_vars
    /\ [][(AtInstruction /\ Current.op = "Print" /\ pc' = "exec")
           => Len(writer') > Len(writer)]_vars
    /\ [][pc = "panicked" => UNCHANGED vars]_vars

\* C12 witness: the run was aborted by an Input inside a loop body after the
\* whole input had been read, with instructions left to execute
C12_Witness ==
    /\ pc = "panicked"
    /\ last = [op |-> "panic", why |-> "cannot read"]
    /\ input # << >>
    /\ reader = << >>
    /\ Len(stack) > 1
    /\ Top.vm_instructions[Top.index + 1].op = "Read"

\* pointers within 2^30 of zero on either side, going round the address range
NearZero(pointer) ==
    \/ pointer[3] = 0 /\ pointer[4] = 0 /\ pointer[2] < LIMB \div 4
    \/ pointer[3] = LIMB - 1 /\ pointer[4] = LIMB - 1
          /\ pointer[2] >= LIMB - LIMB \div 4

\* the integer nearest zero that such a pointer is congruent to modulo 2^64
SignedValue(pointer) ==
    IF pointer[4] = 0 THEN pointer[1] + LIMB * pointer[2]
    ELSE pointer[1] + LIMB * (pointer[2] - LIMB)

\* C17: a Shift never aborts and changes no cell, input or output; the
\* pointer after it is the pointer before it plus the offset modulo 2^64 (the
\* width of usize), not modulo the tape length: one step right of cell
\* 29,999 is 30,000, not 0, and one step left of cell 0 is 2^64 - 1.
C17_ShiftWrapsAtAddressWidth ==
    [][(AtInstruction /\ Current.op = "Move")
        => /\ pc' = "exec"
           /\ UNCHANGED <<memory, reader, writer>>
           /\ NearZero(data_pointer) /\ NearZero(data_pointer')
           /\ SignedValue(data_pointer') = SignedValue(data_pointer) + Current.amount
           /\ (data_pointer = <<TAPE_LEN - 1, 0, 0, 0>> /\ Current.amount = 1)
                => data_pointer' = <<TAPE_LEN, 0, 0, 0>>
           /\ (data_pointer = <<0, 0, 0, 0>> /\ Current.amount = -1)
                => data_pointer' = <<LIMB - 1, LIMB - 1, LIMB - 1, LIMB - 1>>]_vars

\* C17 witness: a Shift(-1) was executed with the pointer at cell 0
C17_Witness ==
    /\ last.op = "Move"
    /\ last.amount = -1
    /\ last.from = usize_zero
    /\ data_pointer = <<LIMB - 1, LIMB - 1, LIMB - 1, LIMB - 1>>

\* the pointer is the index of one of the 30,000 cells
OnTape(pointer) == pointer = <<pointer[1], 0, 0, 0>> /\ pointer[1] \in 0..(TAPE_LEN - 1)

\* C18: an Add, Output, Input or Loop test executed with the pointer off the
\* tape aborts the run at that instruction: no cell is changed, nothing is
\* written, the pointer stays where it is, and no input is taken except the
\* one byte an Input has read before it fails on the index. Aborts on the
\* index happen there only, so a program that moves the pointer off the tape
\* and accesses nothing there returns.
C18_AccessOffTapeAborts ==
    /\ [][(AtInstruction /\ Current.op \in {"Increment", "Print", "Read", "Loop"}
              /\ ~OnTape(data_pointer))
           => /\ pc' = "panicked"
              /\ UNCHANGED <<memory, data_pointer, writer, stack>>
              /\ IF Current.op = "Read" /\ last'.why = "index out of bounds"
                 THEN reader # << >> /\ reader' = Tail(reader)
                 ELSE reader' = reader]_vars
    /\ [][(pc = "exec" /\ pc' = "panicked" /\ last'.why = "index out of bounds")
           => (Current.op # "Move" /\ ~OnTape(data_pointer))]_vars
    /\ [][(pc = "exec" /\ Len(stack) = 1 /\ Top.index = Len(Top.vm_instructions))
           => pc' = "returned"]_vars

\* C18 witness: an Input executed one cell past the end of the tape took its
\* byte and aborted the run
C18_Witness ==
    /\ pc = "panicked"
    /\ last = [op |-> "panic", why |-> "index out of bounds"]
    /\ data_pointer = <<TAPE_LEN, 0, 0, 0>>
    /\ Top.vm_instructions[Top.index + 1].op = "Read"
    /\ Len(reader) < Len(input)

\* a run whose pointer left the tape and that accessed nothing there returned
C18_ReturnedOffTape ==
    /\ pc = "returned"
    /\ ~OnTape(data_pointer)

\* C19: right after a Loop finishes, at any depth and after any number of
\* passes, the pointer is on the tape and the cell under it holds 0; and a
\* Loop that comes next is left at once, its body never entered.
C19_CellIsZeroAfterLoop ==
    /\ [](last.op = "LoopExit"
            => (OnTape(data_pointer) /\ data_pointer[1] \notin DOMAIN memory))
    /\ [][(last.op = "LoopExit" /\ AtInstruction /\ Current.op = "Loop")
           => /\ last'.op = "LoopExit"
              /\ last'.passes = 0
              /\ Len(stack') = Len(stack)
              /\ Top'.index = Top.index + 1
              /\ UNCHANGED <<memory, data_pointer, reader, writer>>]_vars

\* C19 witness: inside a loop body, a Loop that made a pass has finished and
\* the Loop after it was left without a pass
C19_Witness ==
    /\ last.op = "LoopExit"
    /\ last.passes = 0
    /\ Len(stack) = 2
    /\ Top.index = 2
    /\ Top.vm_instructions[1] = VMLoop(<<VMIncrement(-1)>>)
    /\ Top.vm_instructions[2] = VMLoop(<<VMPrint>>)
    /\ writer = << >>

----------------------------------------------------------------------------
(* Properties of lexer *)

\* the eight recognised characters and the token of each
SymbolToken ==
    [c \in {"+", "-", ">", "<", ".", ",", "[", "]"} |->
        CASE c = "+" -> "Increment"
          [] c = "-" -> "Decrement"
          [] c = ">" -> "MoveRight"
          [] c = "<" -> "MoveLeft"
          [] c = "." -> "PutChar"
          [] c = "," -> "ReadChar"
          [] c = "[" -> "JumpIfZero"
          [] c = "]" -> "JumpIfNotZero"]

\* C13: for every source text, the empty one included, lexer returns, and
\* what it returns is one token per recognised character, in source order:
\* the token of the i-th recognised character is the i-th token, and nothing
\* comes of any other character.
C13_LexerKeepsEightSymbols ==
    last.op = "lexer"
      => LET kept == {i \in 1..Len(source_code) :
                         source_code[i] \in DOMAIN SymbolToken}
         IN  /\ pc = "parse"
             /\ Len(bf_instructions) = Cardinality(kept)
             /\ \A i \in kept :
                    bf_instructions[Cardinality({j \in kept : j <= i})]
                      = SymbolToken[source_code[i]]

\* C13 witness: lexer has returned the two tokens of a source in which
\* comment characters stand before and between an output and an input symbol
C13_Witness ==
    /\ last.op = "lexer"
    /\ source_code = <<"x", ".", " ", ",">>
    /\ bf_instructions = <<"PutChar", "ReadChar">>

----------------------------------------------------------------------------
(* Properties of parse *)

\* begin-loops less end-loops among the first i tokens
Depth(t, i) ==
    Cardinality({k \in 1..i : t[k] = "JumpIfZero"})
      - Cardinality({k \in 1..i : t[k] = "JumpIfNotZero"})

\* no end-loop of t lacks a begin-loop before it
NoStrayEnd(t) == \A i \in 1..Len(t) : Depth(t, i) >= 0

\* every loop of t is opened and closed
Balanced(t) == NoStrayEnd(t) /\ Depth(t, Len(t)) = 0

\* the tokens of t that belong to the program: those before the first
\* end-loop that has no begin-loop, with an end-loop added for every loop
\* left open
Scope(t) ==
    LET stray == {i \in 1..Len(t) : Depth(t, i) < 0}
        cut == IF stray = {} THEN Len(t)
               ELSE (CHOOSE i \in stray : \A j \in stray : i <= j) - 1
        kept == SubSeq(t, 1, cut)
    IN  kept \o Repeat("JumpIfNotZero", Depth(kept, cut))

Class(token) ==
    CASE token \in {"Increment", "Decrement"} -> "cell"
      [] token \in {"MoveRight", "MoveLeft"} -> "pointer"
      [] OTHER -> "single"

\* the positions where a maximal run of cell tokens or of pointer tokens
\* starts, and the positions of the other tokens
ItemStarts(t) ==
    {i \in 1..Len(t) :
        Class(t[i]) = "single" \/ i = 1 \/ Class(t[i - 1]) # Class(t[i])}

\* the last position of the maximal run that starts at i
RunEnd(t, i) ==
    CHOOSE j \in i..Len(t) :
        /\ \A k \in i..j : Class(t[k]) = Class(t[i])
        /\ j = Len(t) \/ Class(t[j + 1]) # Class(t[i])

\* the net effect of the run from i to j
Net(t, i, j, plus, minus) ==
    Cardinality({k \in i..j : t[k] = plus}) - Cardinality({k \in i..j : t[k] = minus})

\* what the claim has parse make of the item that starts at i
ExpectedItem(t, i) ==
    CASE Class(t[i]) = "cell" ->
            [item |-> "Add", net |-> Net(t, i, RunEnd(t, i), "Increment", "Decrement")]
      [] Class(t[i]) = "pointer" ->
            [item |-> "Shift", net |-> Net(t, i, RunEnd(t, i), "MoveRight", "MoveLeft")]
      [] OTHER -> [item |-> t[i]]

\* one item per maximal run and per other token, in token order
Expected(t) ==
    LET starts == ItemStarts(t) IN
    [k \in 1..Cardinality(starts) |->
        ExpectedItem(t, CHOOSE i \in starts :
                            Cardinality({q \in starts : q < i}) = k - 1)]

\* the instruction tree written out in token order
RECURSIVE Flatten(_)
Flatten(vm) ==
    IF vm = << >> THEN << >>
    ELSE LET first == Head(vm) IN
         (CASE first.op = "Increment" -> <<[item |-> "Add", net |-> first.amount]>>
            [] first.op = "Move" -> <<[item |-> "Shift", net |-> first.amount]>>
            [] first.op = "Print" -> <<[item |-> "PutChar"]>>
            [] first.op = "Read" -> <<[item |-> "ReadChar"]>>
            [] first.op = "Loop" ->
                  <<[item |-> "JumpIfZero"]>> \o Flatten(first.body)
                     \o <<[item |-> "JumpIfNotZero"]>>)
           \o Flatten(Tail(vm))

\* C3: parse completes, and its tree holds exactly one Add per maximal run of
\* increment/decrement tokens, carrying the run's net effect, and exactly one
\* Shift per maximal run of move tokens, carrying the net displacement.
C3_RunsFoldToOneInstruction ==
    last.op = "parse"
      => /\ pc = "run"
         /\ Flatten(vm_instructions) = Expected(Scope(bf_instructions))

\* the outcome of parse as the state holds it
ParseOutcome == [panicked |-> pc = "panicked", vm |-> vm_instructions]

\* C9: for every end-loop token of the sequence that follows a bracket-
\* balanced prefix p, parse of the whole sequence is parse of p: the end-loop
\* and everything after it are dropped, and no error comes of it.
C9_StrayEndLoopTruncates ==
    last.op = "parse"
      => \A i \in 1..Len(bf_instructions) :
            (/\ bf_instructions[i] = "JumpIfNotZero"
             /\ Balanced(SubSeq(bf_instructions, 1, i - 1)))
            => ParseOutcome
                 = parse(SubSeq(bf_instructions, 1, i - 1), last.overflow_checks)

\* C9 witness: parse has returned a nonempty tree for a sequence with tokens
\* before and after an end-loop that has no begin-loop
C9_Witness ==
    /\ last.op = "parse"
    /\ pc = "run"
    /\ vm_instructions # << >>
    /\ \E i \in 2..(Len(bf_instructions) - 1) :
          /\ bf_instructions[i] = "JumpIfNotZero"
          /\ Balanced(SubSeq(bf_instructions, 1, i - 1))
          /\ bf_instructions[i + 1] \in {"Increment", "PutChar", "JumpIfZero"}

\* parse(p) followed by one Loop whose body is parse(s); a panic in either
\* is a panic of the whole
ThenLoop(p, s) ==
    IF p.panicked \/ s.panicked THEN [panicked |-> TRUE, vm |-> << >>]
    ELSE [panicked |-> FALSE, vm |-> Append(p.vm, VMLoop(s.vm))]

\* the begin-loops of the sequence that no end-loop closes
OpenLoops ==
    {i \in 1..Len(bf_instructions) :
        /\ bf_instructions[i] = "JumpIfZero"
        /\ NoStrayEnd(SubSeq(bf_instructions, i + 1, Len(bf_instructions)))}

\* parse of the sequence is parse of the tokens before token i, followed by
\* one Loop whose body is parse of the tokens after it
SplitsAt(i) ==
    ParseOutcome
      = ThenLoop(parse(SubSeq(bf_instructions, 1, i - 1), last.overflow_checks),
                 parse(SubSeq(bf_instructions, i + 1, Len(bf_instructions)),
                       last.overflow_checks))

\* C10 as stated: for every begin-loop that no end-loop closes, whatever the
\* prefix before it, parse gives parse(p) followed by one Loop holding
\* parse(s).
C10_OpenLoopTakesRest ==
    last.op = "parse" => \A i \in OpenLoops : SplitsAt(i)

\* C10 amended: the same, for the begin-loops that follow a bracket-balanced
\* prefix.
C10_OpenLoopAfterBalancedPrefix ==
    last.op = "parse"
      => \A i \in OpenLoops :
            Balanced(SubSeq(bf_instructions, 1, i - 1)) => SplitsAt(i)

\* C10 witness: parse has returned a tree whose last instruction is a Loop
\* with a nonempty body, for a sequence whose begin-loop is never closed and
\* has tokens before it
C10_Witness ==
    /\ last.op = "parse"
    /\ pc = "run"
    /\ \E i \in OpenLoops :
          /\ i > 1
          /\ i < Len(bf_instructions)
          /\ Balanced(SubSeq(bf_instructions, 1, i - 1))
          /\ Len(vm_instructions) > 1
          /\ vm_instructions[Len(vm_instructions)].op = "Loop"
          /\ vm_instructions[Len(vm_instructions)].body # << >>

\* the kinds of the items, their payloads left out
Kinds(items) == [k \in DOMAIN items |-> items[k].item]

\* C11: in the tree parse returns, in token order, there is one Add per
\* maximal run of adjacent increment/decrement tokens and one Shift per
\* maximal run of adjacent move tokens, each standing for the tokens of its
\* run alone; every output and input token has a Print or Read of its own;
\* and no run reaches across a loop boundary, an I/O token or a token of the
\* other class: "+[+]+" is Add(1), Loop([Add(1)]), Add(1), and k adjacent
\* output tokens are k Prints.
C11_FoldingStopsAtBoundaries ==
    (last.op = "parse" /\ pc = "run")
      => LET expected == Expected(Scope(bf_instructions))
             found == Flatten(vm_instructions)
         IN  /\ Kinds(found) = Kinds(expected)
             /\ \A k \in DOMAIN expected :
                    /\ expected[k].item = "Add"
                         => (found[k].net - expected[k].net) % U8_MODULUS = 0
                    /\ expected[k].item = "Shift"
                         => found[k].net = expected[k].net
             /\ bf_instructions = <<"Increment", "JumpIfZero", "Increment",
                                    "JumpIfNotZero", "Increment">>
                  => vm_instructions = <<VMIncrement(1), VMLoop(<<VMIncrement(1)>>),
                                         VMIncrement(1)>>
             /\ \A k \in 1..Len(bf_instructions) :
                    bf_instructions = Repeat("PutChar", k)
                      => vm_instructions = Repeat(VMPrint, k)

\* C11 witness: parse has returned the tree of "+[+]+", three Adds of one
\* token each
C11_Witness ==
    /\ last.op = "parse"
    /\ pc = "run"
    /\ bf_instructions = <<"Increment", "JumpIfZero", "Increment",
                           "JumpIfNotZero", "Increment">>
    /\ Len(vm_instructions) = 3
    /\ vm_instructions[2] = VMLoop(<<VMIncrement(1)>>)

\* C16: parse completes on every token sequence, runs of more than 127 like
\* tokens included; the delta of each Add is within -128..127, and the Add
\* executed on a cell holding v leaves (v + d) mod 256 there, d being the
\* net effect of the run the Add stands for.
C16_FoldedDeltaNeverOverflows ==
    last.op = "parse"
      => /\ pc = "run"
         /\ LET expected == Expected(Scope(bf_instructions))
                found == Flatten(vm_instructions)
            IN  /\ Len(found) = Len(expected)
                /\ \A k \in DOMAIN expected :
                       expected[k].item = "Add"
                         => /\ found[k].item = "Add"
                            /\ found[k].net \in I8_MIN..I8_MAX
                            /\ \A v \in 0..(U8_MODULUS - 1) :
                                   u8_wrapping_add_signed(v, found[k].net)
                                     = (v + expected[k].net) % U8_MODULUS

\* the source is k increments and then `tail`
CountsThen(tail) ==
    /\ Len(source_code) >= Len(tail)
    /\ source_code =
          Repeat("+", Len(source_code) - Len(tail)) \o tail

\* C14: k increments followed by "[-]", for every k in 1..255 ("+[-]" is
\* k = 1): the program never aborts and returns within the step bound, the
\* loop is left after exactly k passes, and the tape it leaves is all zero.
C14_ClearLoopMakesKPasses ==
    (CountsThen(<<"[", "-", "]">>) /\ Len(source_code) > 3)
      => LET k == Len(source_code) - 3 IN
         /\ pc # "panicked"
         /\ pc = "returned" \/ fuel > 0
         /\ last.op = "LoopExit" => (last.passes = k /\ memory = memory_zero)
         /\ pc = "returned" => memory = memory_zero

\* C15: n increments followed by "[>+<-]", for every n in 0..255
\* ("++[>+<-]" is n = 2): the program never aborts and returns within the
\* step bound, with cell 1 holding n, every other cell 0, and the pointer
\* back at cell 0.
C15_MoveLoopCarriesN ==
    CountsThen(<<"[", ">", "+", "<", "-", "]">>)
      => LET n == Len(source_code) - 6 IN
         /\ pc # "panicked"
         /\ pc = "returned" \/ fuel > 0
         /\ pc = "returned"
              => /\ data_pointer = usize_zero
                 /\ memory_get(memory, 0) = 0
                 /\ memory_get(memory, 1) = n
                 /\ DOMAIN memory \subseteq {1}

----------------------------------------------------------------------------
(* Properties of the whole pipeline *)

\* direct simulation of the source, one character at a time (a comment
\* character does nothing): the pointer after the first i characters, as an
\* integer
RefPointer(source, i) == Net(source, 1, i, ">", "<")

\* the positions of the characters `symbol` met with the pointer at cell j
RefTouches(source, j, symbol) ==
    {i \in 1..Len(source) : source[i] = symbol /\ RefPointer(source, i - 1) = j}

\* the cells the simulation changes
RefCells(source) ==
    {RefPointer(source, i - 1) :
        i \in {k \in 1..Len(source) : source[k] \in {"+", "-"}}}

\* cell j after the simulation: +1 and -1 mod 256 from zero
RefCell(source, j) ==
    (Cardinality(RefTouches(source, j, "+"))
       - Cardinality(RefTouches(source, j, "-"))) % 256

\* C7: for a source without I/O and loop symbols whose simulation stays on
\* the tape, the pipeline does not fail, and the tape run returns is the tape
\* of the simulation.
C7_TapeEqualsDirectSimulation ==
    (RefCells(source_code) \subseteq 0..(TAPE_LEN - 1))
      => /\ pc # "panicked"
         /\ pc = "returned"
              => \A j \in DOMAIN memory \cup RefCells(source_code) :
                    memory_get(memory, j) = RefCell(source_code, j)

\* The reference interpreter: it steps the tokens one at a time, a begin-loop
\* on a zero cell jumping past its end-loop and an end-loop jumping back to
\* its begin-loop.  Cells wrap modulo 256; the pointer is held as the integer
\* nearest zero congruent to it modulo 2^64; an access off the tape and an
\* Input at the end of the input abort.

\* the end-loop that closes the begin-loop at i
MatchingEnd(t, i) ==
    CHOOSE j \in (i + 1)..Len(t) :
        /\ Depth(t, j) = Depth(t, i - 1)
        /\ \A q \in i..(j - 1) : Depth(t, q) > Depth(t, i - 1)

\* the begin-loop that the end-loop at j closes
MatchingBegin(t, j) ==
    CHOOSE i \in 1..(j - 1) : t[i] = "JumpIfZero" /\ MatchingEnd(t, i) = j

StepGet(tape, n) == IF n \in DOMAIN tape THEN tape[n] ELSE 0

StepPut(tape, n, value) ==
    [j \in (DOMAIN tape \ {n}) \cup (IF value = 0 THEN {} ELSE {n}) |->
        IF j = n THEN value ELSE tape[j]]

StepStart(bytes) ==
    [ip |-> 1, status |-> "running", tape |-> [j \in {} |-> 0], pointer |-> 0,
     unread |-> bytes, out |-> << >>]

\* one token executed
StepToken(t, s) ==
    IF s.status # "running" THEN s
    ELSE IF s.ip > Len(t) THEN [s EXCEPT !.status = "done"]
    ELSE LET token == t[s.ip]
             on_tape == s.pointer \in 0..(TAPE_LEN - 1)
             cell == StepGet(s.tape, s.pointer)
             next == [s EXCEPT !.ip = s.ip + 1]
             abort == [s EXCEPT !.status = "aborted"]
         IN  CASE token = "MoveRight" -> [next EXCEPT !.pointer = s.pointer + 1]
               [] token = "MoveLeft" -> [next EXCEPT !.pointer = s.pointer - 1]
               [] token = "JumpIfNotZero" -> [s EXCEPT !.ip = MatchingBegin(t, s.ip)]
               [] token = "ReadChar" ->
                     IF s.unread = << >> THEN abort
                     ELSE IF ~on_tape THEN [abort EXCEPT !.unread = Tail(s.unread)]
                     ELSE [next EXCEPT !.unread = Tail(s.unread),
                                       !.tape = StepPut(s.tape, s.pointer, Head(s.unread))]
               [] OTHER ->
                     IF ~on_tape THEN abort
                     ELSE CASE token = "Increment" ->
                                 [next EXCEPT !.tape =
                                     StepPut(s.tape, s.pointer, (cell + 1) % U8_MODULUS)]
                            [] token = "Decrement" ->
                                 [next EXCEPT !.tape =
                                     StepPut(s.tape, s.pointer, (cell - 1) % U8_MODULUS)]
                            [] token = "PutChar" -> [next EXCEPT !.out = Append(s.out, cell)]
                            [] token = "JumpIfZero" ->
                                 IF cell = 0
                                 THEN [s EXCEPT !.ip = MatchingEnd(t, s.ip) + 1]
                                 ELSE next

\* n tokens executed, or fewer if the program ends or aborts first
RECURSIVE StepTokens(_, _, _)
StepTokens(t, s, n) ==
    IF n = 0 \/ s.status # "running" THEN s
    ELSE IF n = 1 THEN StepToken(t, s)
    ELSE CHOOSE result \in
             {StepTokens(t, half, n - n \div 2) :
                 half \in {StepTokens(t, s, n \div 2)}} : TRUE

\* more token steps than any run of the model that ends takes: a pass of the
\* longest run of tokens, and the tokens behind each counted instruction
ReferenceSteps == MaxSteps * (MaxTokens + 2) + I8_MAX + MaxOver + MaxTokens

\* the run was ended by its input or output device failing, not by the program
DeviceFailed ==
    /\ pc = "panicked"
    /\ last.op = "panic"
    /\ \/ last.why = "cannot write"
       \/ last.why = "cannot read" /\ reader # << >>

\* C20: for every bracket-balanced token sequence and every input, the tree
\* parse makes of the tokens, executed, ends as the reference interpreter
\* ends on the tokens themselves: both return, with the same bytes written,
\* the same input left and the same tape, or both abort, with the same bytes
\* written and the same input left; and a run that has not ended after
\* MaxSteps instructions has a reference that has not ended after as many
\* tokens.
C20_FoldingPreservesMeaning ==
    /\ (pc = "returned")
         => LET ref == StepTokens(bf_instructions, StepStart(input), ReferenceSteps)
            IN  /\ ref.status = "done"
                /\ ref.out = writer
                /\ ref.unread = reader
                /\ ref.tape = memory
    /\ (pc = "panicked" /\ ~DeviceFailed)
         => LET ref == StepTokens(bf_instructions, StepStart(input), ReferenceSteps)
            IN  /\ ref.status = "aborted"
                /\ ref.out = writer
                /\ ref.unread = reader
    /\ (pc = "exec" /\ fuel = 0)
         => StepTokens(bf_instructions, StepStart(input), MaxSteps).status = "running"

====
